---- MODULE Spec2Model ----
(***************************************************************************)
(* State-machine model of fetchCookies (webregautoin): the outer retry     *)
(* loop, the navigation, the login-detection race between the go-button    *)
(* wait and the Duo polling interval, the Duo 2FA sub-flow (push and SMS), *)
(* the wait for the start-page controls, the cookie extraction and the     *)
(* bookkeeping on ctx.session.                                             *)
(*                                                                         *)
(* Every invocation of fetchCookies is one entry of inv; an entry's pc is  *)
(* the await at which the invocation is suspended.  Strings that the code  *)
(* takes apart (SMS hint text, SMS tokens) are sequences of one-character  *)
(* strings; strings that the code only builds (the cookie string) are      *)
(* TLA+ strings.                                                           *)
(***************************************************************************)
EXTENDS Integers, Sequences, FiniteSets, TLC

(* ------------------------------ bounds -------------------------------- *)
\* invocation slots (concurrently existing calls of fetchCookies)
NumInv == 2
\* calls of fetchCookies made in one behaviour
MaxCalls == 3
\* largest value Date.now() returns
MaxClock == 2
\* navigations of one call that return no response object (the code sets no
\* limit to them)
MaxNoResponses == 2
\* longest ctx.tokens list
MaxTokens == 2
\* characters of the year suffix of an argument of getTermSeqId
MaxSuffix == 3

(* ------------------------- program constants -------------------------- *)
SMS == "sms"
PUSH == "push"
NUM_ATTEMPTS_BEFORE_EXIT == 6

\* WebRegLoginResult, plus NoResult while Promise.race is pending
LOGGED_IN == "LOGGED_IN"
NEEDS_DUO == "NEEDS_DUO"
UNKNOWN_ERROR == "UNKNOWN_ERROR"
NoResult == "NoResult"

ERROR_UNABLE == "ERROR UNABLE TO AUTHENTICATE."
RUBY_IS_BAD == "ruby is bad"

Invs == 1..NumInv

(* -------------------------- string helpers ---------------------------- *)
\* "Your next SMS Passcode starts with", one character per element
HintPrefix ==
    << "Y","o","u","r"," ","n","e","x","t"," ","S","M","S"," ",
       "P","a","s","s","c","o","d","e"," ","s","t","a","r","t","s"," ",
       "w","i","t","h" >>

\* String.prototype.startsWith
StartsWith(s, p) == /\ Len(p) <= Len(s)
                    /\ SubSeq(s, 1, Len(p)) = p

\* s.split(" ").at(-1): what follows the last space of s (all of s if none)
RECURSIVE LastWord(_)
LastWord(s) ==
    IF s = << >> THEN << >>
    ELSE IF s[Len(s)] = " " THEN << >>
    ELSE LastWord(SubSeq(s, 1, Len(s) - 1)) \o << s[Len(s)] >>

\* the value undefined / null (unequal to every string)
Undefined == << "undefined" >>

\* mutant of Find: the last matching token instead of the first
RECURSIVE FindLast(_, _)
FindLast(tokens, hint) ==
    IF tokens = << >> THEN Undefined
    ELSE IF StartsWith(tokens[Len(tokens)], hint) THEN tokens[Len(tokens)]
    ELSE FindLast(SubSeq(tokens, 1, Len(tokens) - 1), hint)

\* Array.prototype.find(token => token.startsWith(hint))
RECURSIVE Find(_, _)
Find(tokens, hint) ==
    IF tokens = << >> THEN Undefined
    ELSE IF StartsWith(Head(tokens), hint) THEN Head(tokens)
    ELSE Find(Tail(tokens), hint)

\* JavaScript falsiness of a string-or-undefined value: !v
Falsy(v) == v = Undefined \/ v = << >>

\* cookies.map(x => `${x.name}=${x.value}`).join("; ")
RECURSIVE CookieString(_)
CookieString(cookies) ==
    IF cookies = << >> THEN ""
    ELSE IF Len(cookies) = 1 THEN cookies[1].name \o "=" \o cookies[1].value
    ELSE cookies[1].name \o "=" \o cookies[1].value \o "; "
             \o CookieString(Tail(cookies))

(* ------------------------- environment inputs ------------------------- *)
\* outcomes of page.goto: no response object, an exception, or a response
\* with a status
Statuses == {199, 200, 300, 503}
NoGoto == [kind |-> "none", status |-> 0]
GotoOutcomes ==
    { [kind |-> "null", status |-> 0], [kind |-> "throws", status |-> 0] }
    \cup { [kind |-> "response", status |-> s] : s \in Statuses }

\* SMS tokens the caller may put in ctx.tokens
Codes == { << >>, <<"7","3">>, <<"7","9">> }

RECURSIVE SeqsUpTo(_, _)
SeqsUpTo(S, n) ==
    IF n = 0 THEN { << >> }
    ELSE LET shorter == SeqsUpTo(S, n - 1)
         IN  shorter \cup { Append(s, c) : s \in shorter, c \in S }

\* ctx.tokens: up to MaxTokens passcodes, no passcode listed twice
TokenLists ==
    { t \in SeqsUpTo(Codes, MaxTokens) :
          \A k, l \in 1..Len(t) : t[k] = t[l] => k = l }

\* textContent of the SMS hint element (Undefined: null)
HintTexts ==
    { Undefined, << >>, <<"r","u","b","y">>,
      HintPrefix \o <<" ">>,
      HintPrefix \o <<" ","7">>, HintPrefix \o <<" ","7","9">> }

\* duoFrame.content() after the passcode was submitted
FrameContents == {"detached", "incorrect", "other"}

\* what page.cookies(urlToFetch) returns
CookieJars ==
    { << >>,
      << [name |-> "a", value |-> "1"], [name |-> "b", value |-> "2"] >> }

\* ctx.loginType
LoginTypes == {SMS, PUSH}

(* --------------------------- getTermSeqId ----------------------------- *)
\* A string is the sequence of its characters.
TERM_ARR ==
    (<<"S","P">> :> << 5200, 22 >>) @@ (<<"S","1">> :> << 5210, 22 >>) @@
    (<<"S","2">> :> << 5220, 22 >>) @@ (<<"S","3">> :> << 5230, 22 >>) @@
    (<<"S","U">> :> << 5240, 22 >>) @@ (<<"F","A">> :> << 5250, 22 >>) @@
    (<<"W","I">> :> << 5260, 23 >>)

DigitValue ==
    ("0" :> 0) @@ ("1" :> 1) @@ ("2" :> 2) @@ ("3" :> 3) @@ ("4" :> 4) @@
    ("5" :> 5) @@ ("6" :> 6) @@ ("7" :> 7) @@ ("8" :> 8) @@ ("9" :> 9)

IsDigit(c) == c \in DOMAIN DigitValue

NaN == [nan |-> TRUE, n |-> 0]

Number(v) == [nan |-> FALSE, n |-> v]

\* s without its leading white space
RECURSIVE TrimStart(_)
TrimStart(s) ==
    IF s # << >> /\ Head(s) = " " THEN TrimStart(Tail(s)) ELSE s

\* the digits s begins with
RECURSIVE LeadingDigits(_)
LeadingDigits(s) ==
    IF s # << >> /\ IsDigit(Head(s))
    THEN << Head(s) >> \o LeadingDigits(Tail(s))
    ELSE << >>

\* the number a string of decimal digits denotes
RECURSIVE DecimalValue(_)
DecimalValue(ds) ==
    IF ds = << >> THEN 0
    ELSE 10 * DecimalValue(SubSeq(ds, 1, Len(ds) - 1)) + DigitValue[ds[Len(ds)]]

\* Number.parseInt(s, 10): leading white space is skipped, a sign is read,
\* then the digits up to the first character that is not one; NaN only when
\* no digit is there
parseInt(s) ==
    LET t      == TrimStart(s)
        signed == t # << >> /\ Head(t) \in {"+", "-"}
        digits == LeadingDigits(IF signed THEN Tail(t) ELSE t)
    IN  IF digits = << >> THEN NaN
        ELSE IF signed /\ Head(t) = "-" THEN Number(0 - DecimalValue(digits))
        ELSE Number(DecimalValue(digits))

getTermSeqId(ty) ==
    IF Len(ty) # 4 THEN 0
    ELSE LET term == SubSeq(ty, 1, 2) IN
         IF term \notin DOMAIN TERM_ARR THEN 0
         ELSE LET baseSeqId == TERM_ARR[term][1]
                  baseYear  == TERM_ARR[term][2]
                  year      == parseInt(SubSeq(ty, 3, Len(ty)))
              IN  IF year.nan THEN 0
                  ELSE 70 * (year.n - baseYear) + baseSeqId

\* the arguments getTermSeqId is called with: a term prefix and a year suffix
\* of up to MaxSuffix characters
TermPrefixes == DOMAIN TERM_ARR \cup { <<"A","B">>, <<"s","p">>, <<"S">> }

SuffixChars == {"0", "2", "3", "9", "x", " ", "-", "+"}

TermYears == { p \o x : p \in TermPrefixes, x \in SeqsUpTo(SuffixChars, MaxSuffix) }

(* ------------------------------- state -------------------------------- *)
\* The argument isInit and the fields loginType, automaticPushEnabled, tokens
\* and termInfo of ctx are inputs of a call: each is drawn where the code first
\* reads it.
VARIABLES
    session,    \* ctx.session: [start, callHistory]
    clock,      \* the last value Date.now() returned
    pages,      \* browser.pages(): the open pages, oldest first
    inv,        \* the invocations of fetchCookies
    calls,      \* number of calls of fetchCookies so far
    successes,  \* number of calls that reached the session update
    startWrites, \* number of assignments to ctx.session.start
    termYear,   \* the argument of a call getTermSeqId(termYear)
    seqId       \* what that call returned, NoSeqId before it returns

vars == << session, clock, pages, inv, calls, successes, startWrites, termYear, seqId >>

NoPage == 0 - 1

\* an invocation slot with no call in it
Idle ==
    [pc |-> "idle", isInit |-> FALSE, numFailedAttempts |-> 0,
     page |-> NoPage, resp |-> NoGoto, signedIn |-> FALSE,
     loggedIn |-> FALSE, waiterA |-> "off", waiterB |-> "off", r |-> NoResult,
     first |-> "none", leaked |-> 0, overlapped |-> FALSE,
     navigations |-> 0, noResponses |-> 0, unclassified |-> 0,
     loginType |-> "unread", missing |-> "none", duoClicks |-> << >>,
     tokens |-> << >>, hint |-> Undefined, codeToUse |-> Undefined,
     typedCode |-> Undefined, incorrectPasscode |-> FALSE,
     controls |-> "none", termSelected |-> FALSE,
     cookieReads |-> 0, status |-> "pending", value |-> ""]

\* a context with a fresh session and a browser with its first page
InitCalls ==
    /\ session = [start |-> 0, callHistory |-> << >>]
    /\ clock = 1
    /\ pages = << 0 >>
    /\ inv = [i \in Invs |-> Idle]
    /\ calls = 0
    /\ successes = 0
    /\ startWrites = 0

NoSeqId == 0 - 1

Init ==
    /\ InitCalls
    /\ termYear = << >>
    /\ seqId = NoSeqId

Set(i, rec) == inv' = [inv EXCEPT ![i] = rec]

\* return <value> of the async function: the promise resolves
Resolve(rec, v) == [rec EXCEPT !.pc = "done", !.status = "resolved", !.value = v]

\* throw new Error(<msg>) out of the async function: the promise rejects
Reject(rec, msg) == [rec EXCEPT !.pc = "done", !.status = "rejected", !.value = msg]

\* the top of the while (true) loop: the locals of the iteration are fresh
NextAttempt(rec) ==
    [rec EXCEPT !.pc = "pages", !.page = NoPage, !.resp = NoGoto,
                !.signedIn = FALSE, !.loggedIn = FALSE,
                !.waiterA = "off", !.waiterB = "off", !.r = NoResult,
                !.first = "none"]

(* ------------------------- fetchCookies: entry ------------------------ *)
\* a call fetchCookies(ctx, browser, isInit); calls are made one at a time
Start(i) ==
    /\ calls < MaxCalls
    /\ \A j \in Invs : inv[j].pc = "idle"
    /\ \A j \in Invs : j < i => inv[j].pc # "idle"
    /\ Set(i, [Idle EXCEPT !.pc = "pages"])
    /\ calls' = calls + 1
    /\ UNCHANGED << session, clock, pages, successes, startWrites, termYear, seqId >>

\* a call is under way: it has neither returned nor thrown
Running(j) == inv[j].pc \notin {"idle", "done"}

\* a call fetchCookies(ctx, browser, isInit) on the same ctx and browser,
\* made whether or not earlier calls have ended; overlapped records, for
\* each call, that another call was under way at some time during it
StartConc(i) ==
    /\ calls < MaxCalls
    /\ inv[i].pc = "idle"
    /\ \A j \in Invs : j < i => inv[j].pc # "idle"
    /\ inv' = [j \in Invs |->
                 IF j = i
                 THEN [Idle EXCEPT !.pc = "pages",
                                   !.overlapped = \E k \in Invs : Running(k)]
                 ELSE IF Running(j) THEN [inv[j] EXCEPT !.overlapped = TRUE]
                 ELSE inv[j]]
    /\ calls' = calls + 1
    /\ UNCHANGED << session, clock, pages, successes, startWrites, termYear, seqId >>

\* mutant of ClosePage: the loop runs after the new page was opened as well
ClosePageAfterNew(i) ==
    /\ inv[i].pc \in {"pages", "goto"}
    /\ Len(pages) > 1
    /\ pages' = SubSeq(pages, 1, Len(pages) - 1)
    /\ UNCHANGED << session, clock, inv, calls, successes, startWrites, termYear, seqId >>

\* one round of the loop that closes the unnecessary pages
ClosePage(i) ==
    /\ inv[i].pc = "pages"
    /\ Len(pages) > 1
    /\ pages' = SubSeq(pages, 1, Len(pages) - 1)
    /\ UNCHANGED << session, clock, inv, calls, successes, startWrites, termYear, seqId >>

\* a page handle that no open page and no invocation uses
FreshPage ==
    CHOOSE p \in 0..(Len(pages) + NumInv) :
        /\ \A k \in 1..Len(pages) : pages[k] # p
        /\ \A j \in Invs : inv[j].page # p
        /\ \A q \in 0..(Len(pages) + NumInv) :
              ((\A k \in 1..Len(pages) : pages[k] # q)
                  /\ (\A j \in Invs : inv[j].page # q)) => p <= q

NewPage(i) ==
    /\ inv[i].pc = "pages"
    /\ Len(pages) <= 1
    /\ pages' = Append(pages, FreshPage)
    /\ Set(i, [inv[i] EXCEPT !.pc = "goto", !.page = FreshPage])
    /\ UNCHANGED << session, clock, calls, successes, startWrites, termYear, seqId >>

(* ----------------------------- navigation ----------------------------- *)
\* mutant of BadStatus: 300 taken for a good status
BadStatusAbove300(s) == s < 200 \/ s > 300

BadStatus(s) == s < 200 \/ s >= 300

\* page.goto(WEBREG_URL) and the handling of its outcome
\* mutant of Goto: a navigation without a response gives up once the
\* attempts are used up
GotoGivesUp(i) ==
    /\ inv[i].pc = "goto"
    /\ \E o \in GotoOutcomes :
        LET rec == [inv[i] EXCEPT !.resp = o, !.navigations = @ + 1] IN
        IF o.kind = "null" THEN
            /\ inv[i].noResponses < MaxNoResponses
            /\ Set(i, IF inv[i].numFailedAttempts >= NUM_ATTEMPTS_BEFORE_EXIT
                      THEN Resolve([rec EXCEPT !.noResponses = @ + 1],
                                   ERROR_UNABLE)
                      ELSE NextAttempt([rec EXCEPT !.numFailedAttempts = @ + 1,
                                                   !.noResponses = @ + 1]))
        ELSE IF o.kind = "throws" \/ BadStatus(o.status) THEN
            Set(i, Resolve(rec, ""))
        ELSE
            Set(i, [rec EXCEPT !.pc = "content"])
    /\ UNCHANGED << session, clock, pages, calls, successes, startWrites, termYear, seqId >>

Goto(i) ==
    /\ inv[i].pc = "goto"
    /\ \E o \in GotoOutcomes :
        LET rec == [inv[i] EXCEPT !.resp = o, !.navigations = @ + 1] IN
        IF o.kind = "null" THEN
            /\ inv[i].noResponses < MaxNoResponses
            /\ Set(i, NextAttempt([rec EXCEPT !.numFailedAttempts = @ + 1,
                                              !.noResponses = @ + 1]))
        ELSE IF o.kind = "throws" \/ BadStatus(o.status) THEN
            Set(i, Resolve(rec, ""))
        ELSE
            Set(i, [rec EXCEPT !.pc = "content"])
    /\ UNCHANGED << session, clock, pages, calls, successes, startWrites, termYear, seqId >>

\* the sign-on form, if the page shows it; then both waiters are started
SignIn(i) ==
    /\ inv[i].pc = "content"
    /\ \E form \in BOOLEAN :
           Set(i, [inv[i] EXCEPT !.pc = "race", !.signedIn = form,
                                 !.loggedIn = FALSE, !.waiterA = "pending",
                                 !.waiterB = "polling", !.r = NoResult,
                                 !.first = "none"])
    /\ UNCHANGED << session, clock, pages, calls, successes, startWrites, termYear, seqId >>

(* ------------------------------ the race ------------------------------ *)
\* mutant of Exhausted: gives up two failed attempts early
ExhaustedEarly(n) == n + 2 >= NUM_ATTEMPTS_BEFORE_EXIT

Exhausted(n) == n >= NUM_ATTEMPTS_BEFORE_EXIT

\* the interval of this attempt is still set (nothing has cleared it)
IntervalSet(rec) == rec.waiterB \in {"polling", "inflight"}

\* r === UNKNOWN_ERROR: give up or try again; on continue the interval of the
\* attempt stays set: its loggedIn stays false and its page is closed at the
\* top of the next attempt
AfterUnknown(rec) ==
    LET seen == [rec EXCEPT !.unclassified = @ + 1] IN
    IF Exhausted(rec.numFailedAttempts)
    THEN Resolve(seen, ERROR_UNABLE)
    ELSE NextAttempt([seen EXCEPT !.numFailedAttempts = @ + 1,
                                  !.leaked = IF IntervalSet(rec) THEN @ + 1
                                                                 ELSE @])

\* what follows Promise.race once it has settled with result res
AfterRace(rec, res) ==
    LET got == [rec EXCEPT !.r = res] IN
    IF res = UNKNOWN_ERROR THEN AfterUnknown(got)
    ELSE IF res = NEEDS_DUO THEN [got EXCEPT !.pc = "duo"]
    ELSE [got EXCEPT !.pc = "controls"]

\* The waiter that lost the race changes nothing that the call reads later
\* (loggedIn is read by the interval alone), so its steps are taken while the
\* call is in the race or waits for the start-page controls.
WaiterSteps == {"race", "controls"}

\* mutant of GoButtonVisible: the go button seen late settles the race again
GoButtonVisibleLate(i) ==
    /\ inv[i].pc \in WaiterSteps
    /\ inv[i].waiterA = "pending"
    /\ LET rec == [inv[i] EXCEPT !.waiterA = "resolved", !.loggedIn = TRUE,
                                 !.first = IF @ = "none" THEN "A" ELSE @] IN
       Set(i, AfterRace(rec, LOGGED_IN))
    /\ UNCHANGED << session, clock, pages, calls, successes, startWrites, termYear, seqId >>

\* waiter A: waitForSelector("#startpage-button-go") is fulfilled
GoButtonVisible(i) ==
    /\ inv[i].pc \in WaiterSteps
    /\ inv[i].waiterA = "pending"
    /\ LET rec == [inv[i] EXCEPT !.waiterA = "resolved", !.loggedIn = TRUE,
                                 !.first = IF @ = "none" THEN "A" ELSE @] IN
       Set(i, IF inv[i].pc = "race" THEN AfterRace(rec, LOGGED_IN) ELSE rec)
    /\ UNCHANGED << session, clock, pages, calls, successes, startWrites, termYear, seqId >>

\* waiter A: waitForSelector throws (30 s timeout)
GoButtonTimeout(i) ==
    /\ inv[i].pc \in WaiterSteps
    /\ inv[i].waiterA = "pending"
    /\ LET rec == [inv[i] EXCEPT !.waiterA = "timedout",
                                 !.first = IF @ = "none" THEN "T" ELSE @] IN
       Set(i, IF inv[i].pc = "race" THEN AfterRace(rec, UNKNOWN_ERROR) ELSE rec)
    /\ UNCHANGED << session, clock, pages, calls, successes, startWrites, termYear, seqId >>

\* waiter B: a firing of the 500 ms interval: the callback stops the interval
\* if loggedIn is set, else it starts to look for the Duo frame
IntervalTick(i) ==
    /\ inv[i].pc \in WaiterSteps
    /\ inv[i].waiterB = "polling"
    /\ LET rec == [inv[i] EXCEPT !.waiterB = "cleared"] IN
       IF inv[i].loggedIn
       THEN Set(i, IF inv[i].pc = "race" THEN AfterRace(rec, NEEDS_DUO) ELSE rec)
       ELSE Set(i, [inv[i] EXCEPT !.waiterB = "inflight"])
    /\ UNCHANGED << session, clock, pages, calls, successes, startWrites, termYear, seqId >>

\* mutant of PollResult: the frame found late settles the race again
PollResultLate(i) ==
    /\ inv[i].pc \in WaiterSteps
    /\ inv[i].waiterB = "inflight"
    /\ \E found \in BOOLEAN :
        LET rec == [inv[i] EXCEPT !.waiterB = "cleared",
                                  !.first = IF @ = "none" THEN "B" ELSE @] IN
        IF found
        THEN Set(i, AfterRace(rec, NEEDS_DUO))
        ELSE Set(i, [inv[i] EXCEPT !.waiterB = "polling"])
    /\ UNCHANGED << session, clock, pages, calls, successes, startWrites, termYear, seqId >>

\* waiter B: the callback has looked for the iframe, its content frame and
\* the remember-me label; with all three found it resolves the interval
\* promise, the interval is cleared and the waiter returns NEEDS_DUO
PollResult(i) ==
    /\ inv[i].pc \in WaiterSteps
    /\ inv[i].waiterB = "inflight"
    /\ \E found \in BOOLEAN :
        LET rec == [inv[i] EXCEPT !.waiterB = "cleared",
                                  !.first = IF @ = "none" THEN "B" ELSE @] IN
        IF found
        THEN Set(i, IF inv[i].pc = "race" THEN AfterRace(rec, NEEDS_DUO) ELSE rec)
        ELSE Set(i, [inv[i] EXCEPT !.waiterB = "polling"])
    /\ UNCHANGED << session, clock, pages, calls, successes, startWrites, termYear, seqId >>

\* mutant of LeakedTick: loggedIn, page and the race are declared outside the
\* loop, so the interval of an earlier attempt reads the flag of the attempt
\* under way, polls its page and settles its race
LeakedTickShared(i) ==
    /\ inv[i].pc \notin {"idle", "done"}
    /\ inv[i].leaked > 0
    /\ \E found \in BOOLEAN :
        LET rec == [inv[i] EXCEPT !.leaked = @ - 1] IN
        IF inv[i].loggedIn THEN Set(i, rec)
        ELSE IF found /\ inv[i].pc = "race" THEN Set(i, AfterRace(rec, NEEDS_DUO))
        ELSE UNCHANGED inv
    /\ UNCHANGED << session, clock, pages, calls, successes, startWrites, termYear, seqId >>

\* An interval left set by an earlier attempt fires. loggedIn (let, line 161)
\* and page (const, line 123) belong to the iteration of the loop that set
\* the interval: the flag it reads is false for good, page.$ on its closed
\* page throws, which the callback ignores, and the promise it could resolve
\* is that of a race which has settled. Nothing of the attempt under way
\* changes.
LeakedTick(i) ==
    /\ inv[i].pc \notin {"idle", "done"}
    /\ inv[i].leaked > 0
    /\ UNCHANGED vars

(* ------------------------- the Duo 2FA sub-flow ------------------------ *)
Others == << session, clock, pages, calls, successes, startWrites, termYear, seqId >>

Click(rec, what) == [rec EXCEPT !.duoClicks = Append(@, what)]

\* mutant of ContractViolation: the test on isInit inverted
ContractViolationOnInit(isInit, loginType) == isInit /\ loginType = PUSH

\* a Duo frame showed up although the caller expected a push-free login
ContractViolation(isInit, loginType) == ~isInit /\ loginType = PUSH

\* after the 4 s wait: r === NEEDS_DUO, the check on isInit and loginType
DuoCheck(i) ==
    /\ inv[i].pc = "duo"
    /\ \E isInit \in BOOLEAN, loginType \in LoginTypes :
        LET rec == [inv[i] EXCEPT !.isInit = isInit, !.loginType = loginType] IN
        Set(i, IF ContractViolation(isInit, loginType)
               THEN Reject(rec, RUBY_IS_BAD)
               ELSE [rec EXCEPT !.pc = "possDuoFrame"])
    /\ UNCHANGED Others

\* mutant of FindDuoFrame: a missing frame starts the next attempt
FindDuoFrameRetry(i) ==
    /\ inv[i].pc = "possDuoFrame"
    /\ \E found \in BOOLEAN :
           Set(i, IF ~found
                  THEN NextAttempt([inv[i] EXCEPT !.missing = "duo_iframe"])
                  ELSE [inv[i] EXCEPT !.pc = "contentFrame"])
    /\ UNCHANGED Others

\* page.$("iframe[id='duo_iframe']")
FindDuoFrame(i) ==
    /\ inv[i].pc = "possDuoFrame"
    /\ \E found \in BOOLEAN :
           Set(i, IF ~found
                  THEN Reject([inv[i] EXCEPT !.missing = "duo_iframe"], "")
                  ELSE [inv[i] EXCEPT !.pc = "contentFrame"])
    /\ UNCHANGED Others

\* possDuoFrame.contentFrame()
GetContentFrame(i) ==
    /\ inv[i].pc = "contentFrame"
    /\ \E found \in BOOLEAN, automaticPushEnabled \in BOOLEAN :
           Set(i, IF ~found
                  THEN Reject([inv[i] EXCEPT !.missing = "contentFrame"], "")
                  ELSE [inv[i] EXCEPT !.pc =
                           IF automaticPushEnabled THEN "cancel"
                                                   ELSE "remember"])
    /\ UNCHANGED Others

\* the cancel button of an automatically sent push, if there is one
CancelPush(i) ==
    /\ inv[i].pc = "cancel"
    /\ \E cancelButton \in BOOLEAN :
           Set(i, [(IF cancelButton THEN Click(inv[i], "cancel") ELSE inv[i])
                       EXCEPT !.pc = "remember"])
    /\ UNCHANGED Others

\* "Remember me for 7 days", then the branch on ctx.loginType
RememberMe(i) ==
    /\ inv[i].pc = "remember"
    /\ Set(i, [Click(inv[i], "remember") EXCEPT !.pc =
                   IF inv[i].loginType = SMS THEN "passcode" ELSE "push"])
    /\ UNCHANGED Others

\* the hint text is usable
GoodHint(text) == ~Falsy(text) /\ StartsWith(text, HintPrefix)

\* SMS: "enter a passcode", the hint element, its text, the code to use
EnterPasscode(i) ==
    /\ inv[i].pc = "passcode"
    /\ \E smsCodeHint \in BOOLEAN, smsPasscodeHint \in HintTexts,
          tokens \in TokenLists :
        LET rec == Click(inv[i], "passcode")
            hint == LastWord(smsPasscodeHint)
            codeToUse == Find(tokens, hint)
            read == [rec EXCEPT !.tokens = tokens, !.hint = hint,
                                !.codeToUse = codeToUse]
        IN  IF ~smsCodeHint THEN
                Set(i, Reject([rec EXCEPT !.missing = "smsCodeHint"], ""))
            ELSE IF ~GoodHint(smsPasscodeHint) THEN
                Set(i, Reject([rec EXCEPT !.missing = "hintText"], ""))
            ELSE IF Falsy(codeToUse) THEN
                Set(i, Reject(read, ""))
            ELSE
                Set(i, [read EXCEPT !.pc = "smsTextBox"])
    /\ UNCHANGED Others

\* SMS: the text box, and the code typed into it
TypePasscode(i) ==
    /\ inv[i].pc = "smsTextBox"
    /\ \E smsTextBox \in BOOLEAN :
           Set(i, IF ~smsTextBox
                  THEN Reject([inv[i] EXCEPT !.missing = "smsTextBox"], "")
                  ELSE [inv[i] EXCEPT !.typedCode = inv[i].codeToUse,
                                      !.pc = "smsLogin"])
    /\ UNCHANGED Others

\* the end of the if (ctx.loginType === SMS) block: its constants are gone
LeaveSmsBlock(rec) ==
    [rec EXCEPT !.tokens = << >>, !.hint = Undefined, !.codeToUse = Undefined,
                !.typedCode = Undefined]

\* SMS: "Log In", then the look at the frame for "Incorrect passcode."; the
\* Error thrown there is thrown inside the try and caught by its catch
SubmitPasscode(i) ==
    /\ inv[i].pc = "smsLogin"
    /\ \E frameContent \in FrameContents :
           Set(i, [LeaveSmsBlock(Click(inv[i], "login")) EXCEPT
                      !.incorrectPasscode = (frameContent = "incorrect"),
                      !.pc = "controls"])
    /\ UNCHANGED Others

\* push: "Send me a push"
SendPush(i) ==
    /\ inv[i].pc = "push"
    /\ Set(i, [Click(inv[i], "push") EXCEPT !.pc = "controls"])
    /\ UNCHANGED Others

(* ------------------- start page, cookies and session ------------------- *)
\* mutant of WaitControls: the failed wait is logged and the call goes on
WaitControlsGoOn(i) ==
    /\ inv[i].pc = "controls"
    /\ \E ok \in BOOLEAN :
           Set(i, [inv[i] EXCEPT !.controls = IF ok THEN "visible" ELSE "failed",
                                 !.pc = "term"])
    /\ UNCHANGED Others

\* mutant of WaitControls: the failed wait starts another attempt
WaitControlsRetry(i) ==
    /\ inv[i].pc = "controls"
    /\ \E ok \in BOOLEAN :
           Set(i, IF ok THEN [inv[i] EXCEPT !.controls = "visible", !.pc = "term"]
                        ELSE NextAttempt([inv[i] EXCEPT !.controls = "failed"]))
    /\ UNCHANGED Others

\* Promise.all of the two waitForSelector calls
WaitControls(i) ==
    /\ inv[i].pc = "controls"
    /\ \E ok \in BOOLEAN :
           Set(i, IF ok THEN [inv[i] EXCEPT !.controls = "visible", !.pc = "term"]
                        ELSE Resolve([inv[i] EXCEPT !.controls = "failed"], ""))
    /\ UNCHANGED Others

\* the term is selected when ctx.termInfo is given
SelectTerm(i) ==
    /\ inv[i].pc = "term"
    /\ \E termInfo \in BOOLEAN :
           Set(i, [inv[i] EXCEPT !.termSelected = termInfo, !.pc = "cookies"])
    /\ UNCHANGED Others

\* mutant of UpdateSession: every success is appended to callHistory
UpdateSessionAppend(s, now) == [s EXCEPT !.callHistory = Append(@, now)]

\* mutant of UpdateSession: the start time is written on every success
UpdateSessionRewrite(s, now) == [s EXCEPT !.start = now]

\* the bookkeeping on ctx.session at time now
UpdateSession(s, now) ==
    IF s.start = 0 THEN [s EXCEPT !.start = now]
                   ELSE [s EXCEPT !.callHistory = Append(@, now)]

\* page.cookies(urlToFetch), the session update and the returned string
\* mutant of ExtractCookies: an await between the test of start and the write
ExtractCookiesTorn(i) ==
    \/ /\ inv[i].pc = "cookies"
       /\ Set(i, [inv[i] EXCEPT !.pc = IF session.start = 0 THEN "setStart"
                                                             ELSE "pushTime"])
       /\ UNCHANGED Others
    \/ /\ inv[i].pc \in {"setStart", "pushTime"}
       /\ \E cookies \in CookieJars, now \in clock..MaxClock :
           /\ clock' = now
           /\ session' = IF inv[i].pc = "setStart"
                         THEN [session EXCEPT !.start = now]
                         ELSE [session EXCEPT !.callHistory = Append(@, now)]
           /\ Set(i, Resolve([inv[i] EXCEPT !.cookieReads = @ + 1],
                             CookieString(cookies)))
       /\ successes' = successes + 1
       /\ startWrites' = startWrites +
                            (IF session'.start # session.start THEN 1 ELSE 0)
       /\ UNCHANGED << pages, calls, termYear, seqId >>

ExtractCookies(i) ==
    /\ inv[i].pc = "cookies"
    /\ \E cookies \in CookieJars, now \in clock..MaxClock :
        /\ clock' = now
        /\ session' = UpdateSession(session, now)
        /\ Set(i, Resolve([inv[i] EXCEPT !.cookieReads = @ + 1],
                          CookieString(cookies)))
    /\ successes' = successes + 1
    /\ startWrites' = startWrites +
                         (IF session'.start # session.start THEN 1 ELSE 0)
    /\ UNCHANGED << pages, calls, termYear, seqId >>

\* the caller has the outcome of the call; the slot is free again
Return(i) ==
    /\ inv[i].pc = "done"
    /\ Set(i, Idle)
    /\ UNCHANGED Others

(* --------------------------- getTermSeqId call ------------------------ *)
GetTermSeqId ==
    /\ seqId = NoSeqId
    /\ seqId' = getTermSeqId(termYear)
    /\ UNCHANGED << session, clock, pages, inv, calls, successes, startWrites,
                    termYear >>

(* ---------------------------- specification --------------------------- *)
Next ==
    \E i \in Invs :
        \/ Start(i)
        \/ ClosePage(i)
        \/ NewPage(i)
        \/ Goto(i)
        \/ SignIn(i)
        \/ GoButtonVisible(i)
        \/ GoButtonTimeout(i)
        \/ IntervalTick(i)
        \/ PollResult(i)
        \/ LeakedTick(i)
        \/ DuoCheck(i)
        \/ FindDuoFrame(i)
        \/ GetContentFrame(i)
        \/ CancelPush(i)
        \/ RememberMe(i)
        \/ EnterPasscode(i)
        \/ TypePasscode(i)
        \/ SubmitPasscode(i)
        \/ SendPush(i)
        \/ WaitControls(i)
        \/ SelectTerm(i)
        \/ ExtractCookies(i)
        \/ Return(i)

Spec == Init /\ [][Next]_vars

\* The steps of call i that the event loop and the browser make happen: every
\* await of the call returns or throws in the end (page.goto, the waits with
\* their timeouts, the clicks), waiter A among them. The firings of the
\* intervals are left out: they go on whether the call moves or not.
Progress(i) ==
    \/ ClosePage(i)
    \/ NewPage(i)
    \/ Goto(i)
    \/ SignIn(i)
    \/ GoButtonVisible(i)
    \/ GoButtonTimeout(i)
    \/ DuoCheck(i)
    \/ FindDuoFrame(i)
    \/ GetContentFrame(i)
    \/ CancelPush(i)
    \/ RememberMe(i)
    \/ EnterPasscode(i)
    \/ TypePasscode(i)
    \/ SubmitPasscode(i)
    \/ SendPush(i)
    \/ WaitControls(i)
    \/ SelectTerm(i)
    \/ ExtractCookies(i)
    \/ Return(i)

\* fetchCookies where no await of a call stays pending for ever
SpecFair == Spec /\ \A i \in Invs : WF_vars(Progress(i))

\* Calls of fetchCookies that overlap on one ctx and one browser, each of
\* them the call of a signed-in user: the go button shows up in every race.
NextConc ==
    \E i \in Invs :
        \/ StartConc(i)
        \/ ClosePage(i)
        \/ NewPage(i)
        \/ Goto(i)
        \/ SignIn(i)
        \/ GoButtonVisible(i)
        \/ WaitControls(i)
        \/ SelectTerm(i)
        \/ ExtractCookies(i)
        \/ Return(i)

SpecConc == Init /\ [][NextConc]_vars

\* getTermSeqId applied to each argument of TermYears
InitTerm ==
    /\ InitCalls
    /\ termYear \in TermYears
    /\ seqId = NoSeqId

NextTerm == GetTermSeqId

SpecTerm == InitTerm /\ [][NextTerm]_vars

(* ------------------------------- claims ------------------------------- *)
Done(i) == inv[i].pc = "done"

Resolved(i, v) == Done(i) /\ inv[i].status = "resolved" /\ inv[i].value = v

Rejected(i) == Done(i) /\ inv[i].status = "rejected"

Clicked(i, what) ==
    \E k \in 1..Len(inv[i].duoClicks) : inv[i].duoClicks[k] = what

\* C1 (as claimed): once the race has settled Unclassified on 6 attempts of a
\* call whose navigations all returned a 2xx response, the call has returned
\* "ERROR UNABLE TO AUTHENTICATE." and has made at most 6 navigations.
C1_Claim ==
    \A i \in Invs :
        (/\ inv[i].unclassified >= NUM_ATTEMPTS_BEFORE_EXIT
         /\ inv[i].navigations = inv[i].unclassified)
        => /\ Resolved(i, ERROR_UNABLE)
           /\ inv[i].navigations <= NUM_ATTEMPTS_BEFORE_EXIT

\* C2 (as claimed): when the frame shows "Incorrect passcode." after the SMS
\* passcode was submitted, the call ends in a fault: no wait for the
\* start-page controls, no cookies read, no resolved promise.
C2_Claim ==
    \A i \in Invs :
        inv[i].incorrectPasscode
        => /\ Rejected(i)
           /\ inv[i].controls = "none"
           /\ inv[i].cookieReads = 0

\* C3: with isInit false and loginType push, a race that settles NEEDS_DUO
\* ends the call with the Error "ruby is bad": nothing in the Duo frame is
\* clicked, no cookies are read, no new attempt is made.
C3_ContractViolation ==
    \A i \in Invs :
        (/\ ~inv[i].isInit
         /\ inv[i].loginType = PUSH
         /\ inv[i].r = NEEDS_DUO)
        => /\ Rejected(i)
           /\ inv[i].value = RUBY_IS_BAD
           /\ inv[i].duoClicks = << >>
           /\ inv[i].missing = "none"
           /\ inv[i].controls = "none"
           /\ inv[i].cookieReads = 0

\* C3 witness: a call with isInit false and push was rejected after NEEDS_DUO
C3_Witness ==
    \E i \in Invs :
        /\ Rejected(i)
        /\ ~inv[i].isInit
        /\ inv[i].loginType = PUSH
        /\ inv[i].r = NEEDS_DUO
        /\ inv[i].unclassified > 0

\* the navigation of the current attempt threw or returned a non-2xx status
NavigationFault(i) ==
    \/ inv[i].resp.kind = "throws"
    \/ /\ inv[i].resp.kind = "response"
       /\ ~(200 <= inv[i].resp.status /\ inv[i].resp.status < 300)

\* C4: a navigation that throws or returns a status outside [200,300) ends
\* the call with "": numFailedAttempts counts the earlier attempts only, the
\* failed navigation is the last one, no credentials were typed in this
\* attempt and no cookies are read.
C4_NavigationFault ==
    \A i \in Invs :
        NavigationFault(i)
        => /\ Resolved(i, "")
           /\ inv[i].numFailedAttempts = inv[i].noResponses + inv[i].unclassified
           /\ inv[i].navigations = inv[i].noResponses + inv[i].unclassified + 1
           /\ ~inv[i].signedIn
           /\ inv[i].r = NoResult
           /\ inv[i].cookieReads = 0

\* C4 witness: status 300 on an attempt that follows failed attempts
C4_Witness ==
    \E i \in Invs :
        /\ Done(i)
        /\ inv[i].resp = [kind |-> "response", status |-> 300]
        /\ inv[i].unclassified > 0
        /\ inv[i].noResponses > 0

\* C5: after N >= 1 successful calls made one after another, start was
\* written exactly once (before the first success it is 0) and callHistory
\* has N - 1 entries, each >= the entry before it and >= start.
C5_SessionRecord ==
    LET h == session.callHistory IN
    IF successes = 0
    THEN session.start = 0 /\ h = << >> /\ startWrites = 0
    ELSE /\ startWrites = 1
         /\ session.start > 0
         /\ Len(h) = successes - 1
         /\ \A k \in 1..Len(h) : h[k] >= session.start
         /\ \A k \in 2..Len(h) : h[k] >= h[k - 1]

\* C5 witness: three successes, the second history entry later than the first
C5_Witness ==
    /\ successes = 3
    /\ Len(session.callHistory) = 2
    /\ session.callHistory[1] < session.callHistory[2]

\* the strings the doc comment of fetchCookies lists
DocumentedResults ==
    {"", ERROR_UNABLE} \cup { CookieString(c) : c \in CookieJars }

\* C6 (as claimed): every call that ends resolves with one of the documented
\* strings, and a Duo frame (or content frame) that cannot be found makes the
\* call return "".
C6_Claim ==
    \A i \in Invs :
        Done(i)
        => /\ inv[i].status = "resolved"
           /\ inv[i].value \in DocumentedResults
           /\ inv[i].missing \in {"duo_iframe", "contentFrame"}
                 => inv[i].value = ""

\* C7 (as claimed): "ERROR UNABLE TO AUTHENTICATE." is returned only after
\* the race has settled Unclassified 6 times in the call.
C7_Claim ==
    \A i \in Invs :
        Resolved(i, ERROR_UNABLE)
        => inv[i].unclassified >= NUM_ATTEMPTS_BEFORE_EXIT

\* C7 (amended): "ERROR UNABLE TO AUTHENTICATE." is returned only at an
\* Unclassified race outcome, and only when the Unclassified outcomes and the
\* no-response navigations of the call together number at least 6.
C7_BudgetConsumers ==
    \A i \in Invs :
        Resolved(i, ERROR_UNABLE)
        => /\ inv[i].r = UNKNOWN_ERROR
           /\ inv[i].unclassified >= 1
           /\ inv[i].unclassified + inv[i].noResponses
                 >= NUM_ATTEMPTS_BEFORE_EXIT

\* C7 witness: given up with fewer than 6 Unclassified outcomes
C7_Witness ==
    \E i \in Invs :
        /\ Resolved(i, ERROR_UNABLE)
        /\ inv[i].noResponses > 0
        /\ inv[i].unclassified < NUM_ATTEMPTS_BEFORE_EXIT

FirstMatch(tokens, hint) ==
    LET idx == { k \in 1..Len(tokens) : StartsWith(tokens[k], hint) } IN
    IF idx = {} THEN Undefined
    ELSE tokens[CHOOSE k \in idx : \A m \in idx : k <= m]

\* the call threw because it had no code to type
NoCodeFault(i) ==
    /\ Rejected(i)
    /\ inv[i].missing = "none"
    /\ inv[i].typedCode = Undefined
    /\ ~Clicked(i, "login")

\* C9 (as claimed): once the hint is read, the code typed is the first token
\* that starts with the hint; the call faults for lack of a code, with
\* nothing typed or submitted, exactly if no token starts with the hint.
C9_Claim ==
    \A i \in Invs :
        inv[i].hint # Undefined
        => LET m == FirstMatch(inv[i].tokens, inv[i].hint) IN
           IF m = Undefined
           THEN NoCodeFault(i)
           ELSE /\ ~NoCodeFault(i)
                /\ inv[i].typedCode # Undefined => inv[i].typedCode = m

\* C9 (amended): the code typed is the first token that starts with the hint
\* if that token is not the empty string; the call faults, with nothing typed
\* or submitted, if no token starts with the hint or the first that does is
\* the empty string.
C9_FirstMatchTyped ==
    \A i \in Invs :
        inv[i].hint # Undefined
        => LET m == FirstMatch(inv[i].tokens, inv[i].hint) IN
           IF m = Undefined \/ m = << >>
           THEN NoCodeFault(i)
           ELSE /\ ~NoCodeFault(i)
                /\ inv[i].codeToUse = m
                /\ inv[i].typedCode # Undefined => inv[i].typedCode = m

\* C9 witness: two tokens start with the hint and the first one was typed
C9_Witness ==
    \E i \in Invs :
        /\ inv[i].pc = "smsLogin"
        /\ Len(inv[i].tokens) = 2
        /\ inv[i].tokens[1] # inv[i].tokens[2]
        /\ StartsWith(inv[i].tokens[2], inv[i].hint)
        /\ inv[i].hint # << >>
        /\ inv[i].typedCode = inv[i].tokens[1]

\* C10: when the wait for the term selector and the go button fails, after
\* LOGGED_IN or after the Duo sub-flow, the call returns "": no new attempt,
\* no term selected, no cookies read.
C10_ControlsFailed ==
    \A i \in Invs :
        inv[i].controls = "failed"
        => /\ Resolved(i, "")
           /\ inv[i].r \in {LOGGED_IN, NEEDS_DUO}
           /\ ~inv[i].termSelected
           /\ inv[i].cookieReads = 0

\* C10 witness: a push was sent and the controls never showed up
C10_Witness ==
    \E i \in Invs :
        /\ Resolved(i, "")
        /\ inv[i].controls = "failed"
        /\ Clicked(i, "push")

\* C11: the session record changes only in the step in which a call reads the
\* cookies and resolves; every other step, the steps that end a call in "",
\* in "ERROR UNABLE TO AUTHENTICATE." or in a rejection among them, leaves
\* start and callHistory as they were. The successful step changes exactly
\* one of the two: it sets start (which was 0) and leaves callHistory, or it
\* leaves start and appends one entry to callHistory, the earlier entries kept.
C11_FrameEffect ==
    [][ LET extracted == \E i \in Invs : /\ inv[i].pc = "cookies"
                                         /\ inv'[i].pc = "done"
                                         /\ inv'[i].status = "resolved"
            n == Len(session.callHistory)
        IN  IF extracted
            THEN \/ /\ session.start = 0
                    /\ session'.start # 0
                    /\ session'.callHistory = session.callHistory
                 \/ /\ session.start # 0
                    /\ session'.start = session.start
                    /\ Len(session'.callHistory) = n + 1
                    /\ SubSeq(session'.callHistory, 1, n) = session.callHistory
            ELSE session' = session ]_vars

\* a call has ended without reading the cookies after two calls succeeded:
\* start is set and callHistory holds the one entry of the second success
C11_Witness ==
    \E i \in Invs :
        /\ Done(i)
        /\ inv[i].cookieReads = 0
        /\ successes = 2
        /\ session.start # 0
        /\ Len(session.callHistory) = 1

\* C13: when waiter A is fulfilled before a poll of waiter B has found the Duo
\* frame with its remember-me label, the race yields LOGGED_IN and the call
\* goes on to the start-page controls: no Duo step is taken and no Duo control
\* is clicked, also after waiter B has stopped its interval and has returned.
C13_LoggedInWins ==
    \A i \in Invs :
        inv[i].first = "A"
        => /\ inv[i].r = LOGGED_IN
           /\ inv[i].pc \in {"controls", "term", "cookies", "done"}
           /\ inv[i].loginType = "unread"
           /\ inv[i].missing = "none"
           /\ inv[i].duoClicks = << >>

\* waiter A won the race, waiter B has since cleared its interval and the
\* call has resolved after reading the cookies
C13_Witness ==
    \E i \in Invs :
        /\ inv[i].first = "A"
        /\ inv[i].waiterB = "cleared"
        /\ Done(i)
        /\ inv[i].cookieReads = 1

\* C14: when a poll of waiter B has found the Duo iframe, its content frame
\* and the remember-me label before waiter A was fulfilled or timed out, the
\* race yields NEEDS_DUO, whatever waiter A does afterwards.
C14_NeedsDuoWins ==
    \A i \in Invs :
        inv[i].first = "B"
        => /\ inv[i].r = NEEDS_DUO
           /\ inv[i].pc \notin {"idle", "pages", "goto", "content", "race"}

\* waiter B won the race and waiter A has been fulfilled afterwards
C14_Witness ==
    \E i \in Invs :
        /\ inv[i].first = "B"
        /\ inv[i].waiterA = "resolved"
        /\ inv[i].r = NEEDS_DUO

\* C15 (as claimed): once a later attempt of the call is under way, no
\* interval that waiter B set in an earlier attempt is still set.
C15_Claim ==
    \A i \in Invs :
        inv[i].pc \notin {"idle", "pages"} => inv[i].leaked = 0

\* C19: in one call the Duo steps are taken at most once and the push control
\* is clicked at most once, however many attempts the call makes: while an
\* attempt is at the top of the loop, in the navigation or in the race, the
\* call has read no login type, has looked for no Duo element and has clicked
\* no Duo control, so no attempt starts after a Duo step.
C19_TwoFactorOnce ==
    \A i \in Invs :
        /\ inv[i].pc \in {"pages", "goto", "content", "race"}
           => /\ inv[i].loginType = "unread"
              /\ inv[i].missing = "none"
              /\ inv[i].duoClicks = << >>
        /\ Cardinality({k \in 1..Len(inv[i].duoClicks) :
                            inv[i].duoClicks[k] = "push"}) <= 1

\* a call that made Unclassified attempts first has sent its one push and
\* has ended
C19_Witness ==
    \E i \in Invs :
        /\ Done(i)
        /\ inv[i].unclassified >= 2
        /\ Clicked(i, "push")

\* C20 (as claimed): a call that resolves with "" has not read the cookies,
\* so it has left the session record alone, and a call that has read the
\* cookies resolves with a string other than "".
C20_Claim ==
    \A i \in Invs :
        /\ Resolved(i, "") => inv[i].cookieReads = 0
        /\ (Done(i) /\ inv[i].cookieReads = 1) => inv[i].value # ""

\* C12 (as claimed): getTermSeqId returns baseSeqId + 70 * (year - baseYear)
\* for an argument that is a known two-letter term followed by two decimal
\* digits, and 0 for every other argument: one of another length, one with
\* an unknown term, one whose last two characters are not both digits.
C12_Claim ==
    seqId # NoSeqId
    => seqId = IF /\ Len(termYear) = 4
                  /\ SubSeq(termYear, 1, 2) \in DOMAIN TERM_ARR
                  /\ IsDigit(termYear[3])
                  /\ IsDigit(termYear[4])
               THEN TERM_ARR[SubSeq(termYear, 1, 2)][1]
                    + 70 * (10 * DigitValue[termYear[3]] + DigitValue[termYear[4]]
                            - TERM_ARR[SubSeq(termYear, 1, 2)][2])
               ELSE 0

InUse(i) == inv[i].pc \notin {"idle", "pages", "done"}

PageOpen(p) == \E k \in 1..Len(pages) : pages[k] = p

\* C17: a call works on a closed page only if another call was under way
\* during it: the loop of that call that closes all pages but one has closed
\* the page; in a call that no other call overlaps, the page an attempt has
\* opened stays open until the attempt ends.
C17_PageClosedByOverlap ==
    \A i \in Invs :
        (InUse(i) /\ ~PageOpen(inv[i].page)) => inv[i].overlapped

\* a call is at work on its page after another call has closed that page
C17_Witness ==
    \E i \in Invs :
        /\ InUse(i)
        /\ inv[i].page # NoPage
        /\ ~PageOpen(inv[i].page)
        /\ inv[i].overlapped

\* C18: with calls that overlap, the test of start and the write that follows
\* it are one step: after K calls have read the cookies, start was written
\* once, by the first of them, callHistory holds K - 1 entries and its
\* entries do not decrease.
C18_AtomicUpdate ==
    /\ successes = 0 => session = [start |-> 0, callHistory |-> << >>]
    /\ successes > 0
       => /\ session.start # 0
          /\ startWrites = 1
          /\ Len(session.callHistory) = successes - 1
          /\ \A k \in 1..Len(session.callHistory) :
                /\ session.start <= session.callHistory[k]
                /\ \A l \in 1..k : session.callHistory[l] <= session.callHistory[k]

\* two calls that overlapped have both read the cookies and resolved
C18_Witness ==
    \E i, j \in Invs :
        /\ i # j
        /\ Done(i) /\ inv[i].overlapped /\ inv[i].cookieReads = 1
        /\ Done(j) /\ inv[j].overlapped /\ inv[j].cookieReads = 1
        /\ successes = 2
        /\ Len(session.callHistory) = 1

====
